---- MODULE Spec2Model ----
(***************************************************************************)
(* Model of ride-app-backend/app.py: the /book-ride handler book_ride, the *)
(* leg resolver get_distance_and_duration and calculate_cost.              *)
(*                                                                         *)
(* Python values that may be None are sequences of length 0 or 1           *)
(* (None == <<>>, a value v is <<v>>).  Python floats are fixed-point      *)
(* integers, a real x being the integer x * Scale; Scale is chosen so that *)
(* meters / 1000, seconds / 60 and the products with the pricing rates are *)
(* exact.  The provider's values are multiples of 4 meters, for which no   *)
(* sum lies halfway between two hundredths, where round() of a binary      *)
(* float depends on its representation error.                              *)
(***************************************************************************)
EXTENDS Integers, Sequences, FiniteSets, TLC

VARIABLES environ, FIXED_ORIGIN, GOOGLE_MAPS_API_KEY,
          active, data, pc,
          total_distance_km, total_duration_minutes, calculated_legs,
          current_origin_for_next_leg, result, response,
          invocations, netcalls, answers, returns

vars == <<environ, FIXED_ORIGIN, GOOGLE_MAPS_API_KEY, active, data, pc,
          total_distance_km, total_duration_minutes, calculated_legs,
          current_origin_for_next_leg, result, response,
          invocations, netcalls, answers, returns>>

config == <<environ, FIXED_ORIGIN, GOOGLE_MAPS_API_KEY>>

(* ---------------------------- bounds ----------------------------------- *)
MaxAdditional == 2
NumRequests == 2

Requests == 1..NumRequests

(* ------------------------- Python values -------------------------------- *)
None == <<>>
Some(x) == <<x>>

\* truth value of an optional string: None and "" are falsy
Truthy(o) == o # None /\ o[1] # ""

Scale == 1000 * 30

\* round half to even of n / d, for n >= 0 and d > 0
RoundHalfEven(n, d) ==
    LET q == n \div d
        r == n % d
    IN  IF 2 * r < d THEN q
        ELSE IF 2 * r > d THEN q + 1
        ELSE IF q % 2 = 0 THEN q ELSE q + 1

\* round(x, 2)
round2(x) == RoundHalfEven(x, Scale \div 100) * (Scale \div 100)

(* --------------------------- configuration ------------------------------ *)
DEFAULT_FIXED_ORIGIN == "Harare, Zimbabwe"

\* os.environ.get(key, default)
os_environ_get(env, key, default) == IF env[key] = None THEN default ELSE env[key]

FixedOriginPlaceholder(env) ==
    os_environ_get(env, "FIXED_ORIGIN", Some("YOUR_FIXED_ORIGIN_ADDRESS"))[1]

FixedOriginFromEnv(env) == os_environ_get(env, "FIXED_ORIGIN", Some(DEFAULT_FIXED_ORIGIN))[1]

ApiKeyFromEnv(env) == os_environ_get(env, "GOOGLE_MAPS_API_KEY", None)

\* 2.00; the two rates 0.50 and 0.20 are the fractions 1/2 and 1/5
BASE_FARE_USD == 2 * Scale
COST_PER_KM_USD == <<1, 2>>
COST_PER_MINUTE_USD == <<1, 5>>

\* x * rate
times(x, rate) == (x * rate[1]) \div rate[2]

Environments ==
    [FIXED_ORIGIN : {None, Some(""), Some("Depot")},
     GOOGLE_MAPS_API_KEY : {None, Some(""), Some("key")}]

(* ----------------------------- requests --------------------------------- *)
Keys == {"name", "email", "phone", "pickupLocation", "primaryDestination",
         "additionalDestinations", "passengerRequests"}

\* a JSON object: the keys whose choice is not None, with the chosen value
Body(ch) == [k \in {k \in Keys : ch[k] # None} |-> ch[k][1]]

SeqsUpTo(S, n) == UNION {[1..m -> S] : m \in 0..n}

Opt(v) == {None, Some(""), Some(v)}

Bodies ==
    {Body(ch) : ch \in
       [name : Opt("Tendai"), email : Opt("t@example.com"), phone : Opt("0771"),
        pickupLocation : Opt("A"), primaryDestination : Opt("B"),
        additionalDestinations :
            {None} \cup {Some(s) : s \in SeqsUpTo({"C", ""}, MaxAdditional)},
        passengerRequests : {None, Some("quiet")}]}

\* data.get(key)
get(d, key) == IF key \in DOMAIN d THEN Some(d[key]) ELSE None

\* data.get('additionalDestinations', [])
additional_destinations(d) ==
    IF "additionalDestinations" \in DOMAIN d THEN d["additionalDestinations"] ELSE <<>>

required_fields_contact_only(d) == <<get(d, "name"), get(d, "email"), get(d, "phone")>>

required_fields_stops_only(d) == <<get(d, "pickupLocation"), get(d, "primaryDestination")>>

required_fields(d) ==
    <<get(d, "name"), get(d, "email"), get(d, "phone"),
      get(d, "pickupLocation"), get(d, "primaryDestination")>>

\* all([...])
all(xs) == \A i \in 1..Len(xs) : Truthy(xs[i])

(* ------------------------- provider replies ----------------------------- *)
Element(st, dist, dur) == [status |-> st, distance |-> dist, duration |-> dur]

Json(st, rows) == [kind |-> "json", text |-> "", status |-> st, rows |-> rows]

Raised(kind, text) == [kind |-> kind, text |-> text, status |-> None, rows |-> <<>>]

OneElement(e) == <<[elements |-> <<e>>]>>

OkReply(m, s) == Json(Some("OK"), OneElement(Element("OK", Some(m), Some(s))))

Measures == {<<10000, 900>>, <<5000, 600>>, <<1004, 100>>}

OkReplies == {OkReply(v[1], v[2]) : v \in Measures}

FailReplies ==
    { Raised("RequestException", "connection refused"),
      Raised("HTTPError", "500 Server Error"),
      Raised("ValueError", ""),
      Json(None, <<>>),
      Json(Some("REQUEST_DENIED"), <<>>),
      Json(Some(""), <<>>),
      Json(Some("OK"), <<>>),
      Json(Some("OK"), <<[elements |-> <<>>]>>),
      Json(Some("OK"), OneElement(Element("NOT_FOUND", None, None))),
      Json(Some("OK"), OneElement(Element("", None, None))),
      Json(Some("OK"), OneElement(Element("OK", None, Some(100)))),
      Json(Some("OK"), OneElement(Element("OK", Some(1004), None))) }

Replies == OkReplies \cup FailReplies

ConcReplies ==
    { OkReply(10000, 900), OkReply(1004, 100),
      Json(Some("OK"), OneElement(Element("NOT_FOUND", None, None))) }

(* -------------------- get_distance_and_duration ------------------------- *)
ResolverResult(dist, dur, err) == [dist |-> dist, dur |-> dur, err |-> err]

Failure(msg) == ResolverResult(None, None, Some(msg))

api_key_unchecked(key) == TRUE

\* if not GOOGLE_MAPS_API_KEY: return early
api_key_configured(key) == Truthy(key)

top_status_error(st) == "Distance Matrix API status: " \o st

element_status_bare(st) == st

element_status_error(st) == "Distance Matrix API element status: " \o st

to_km(distance_meters) == (distance_meters * Scale) \div 1000

to_minutes(duration_seconds) == (duration_seconds * Scale) \div 60

\* the body of the try block and its except clauses, given what requests.get produced
handle_response(rep) ==
    IF rep.kind \in {"RequestException", "HTTPError"}
    THEN Failure("Network or API request error: " \o rep.text)
    ELSE IF rep.kind = "ValueError"
    THEN Failure("Failed to parse API response as JSON.")
    ELSE IF rep.status = None
    THEN Failure("An unexpected error occurred: 'status'")
    ELSE IF rep.status[1] = "OK" /\ rep.rows # <<>> /\ rep.rows[1].elements # <<>>
    THEN LET element == rep.rows[1].elements[1]
         IN  IF element.status = "OK"
             THEN IF element.distance = None
                  THEN Failure("An unexpected error occurred: 'distance'")
                  ELSE IF element.duration = None
                  THEN Failure("An unexpected error occurred: 'duration'")
                  ELSE ResolverResult(Some(to_km(element.distance[1])),
                                      Some(to_minutes(element.duration[1])), None)
             ELSE Failure(element_status_error(element.status))
    ELSE Failure(top_status_error(rep.status[1]))

(* --------------------------- calculate_cost ----------------------------- *)
calculate_cost_of_rounded(distance_km, duration_minutes) ==
    round2(BASE_FARE_USD
           + times(round2(distance_km), COST_PER_KM_USD)
           + times(round2(duration_minutes), COST_PER_MINUTE_USD))

calculate_cost(distance_km, duration_minutes) ==
    LET cost == BASE_FARE_USD
                + times(distance_km, COST_PER_KM_USD)
                + times(duration_minutes, COST_PER_MINUTE_USD)
    IN  round2(cost)

(* ------------------------------ book_ride ------------------------------- *)
NoResponse == [status |-> 0, error |-> None, booking_details |-> None]

ErrorResponse(code, msg) == [status |-> code, error |-> Some(msg), booking_details |-> None]

\* an exception book_ride does not catch: the framework's 500 page, no JSON error body
UnhandledException == [status |-> 500, error |-> None, booking_details |-> None]

NumLegs(d) == 2 + Len(additional_destinations(d))

\* the destination of the k-th call of get_distance_and_duration
Destination(d, k) ==
    IF k = 1 THEN get(d, "pickupLocation")
    ELSE IF k = 2 THEN get(d, "primaryDestination")
    ELSE Some(additional_destinations(d)[k - 2])

\* the origin of the k-th call
Origin(r, k) == IF k = 1 THEN Some(FIXED_ORIGIN) ELSE current_origin_for_next_leg[r]

leg_error(k, dest, err) ==
    IF k = 1 THEN "Error calculating distance to pickup: " \o err
    ELSE IF k = 2 THEN "Error calculating distance to primary destination: " \o err
    ELSE "Error calculating distance for additional destination '" \o dest[1] \o "': " \o err

failed_never(err) == FALSE

\* if err:
failed(err) == Truthy(err)

accumulate_rounded(total, x) == total + round2(x)

\* total_distance_km += dist
accumulate(total, x) == total + x

next_origin_stale(cur, dest) == cur

\* current_origin_for_next_leg = <the stop just reached>
next_origin(cur, dest) == dest

Leg(from, to, dist, dur) ==
    [from |-> from, to |-> to, distance_km |-> round2(dist), duration_minutes |-> round2(dur)]

TotalsShared(r) == 1

\* the request whose frame holds the running totals: they are locals of book_ride
TotalsOwner(r) == r

BookingDetails(d, dist, dur, legs) ==
    [name |-> get(d, "name"), email |-> get(d, "email"), phone |-> get(d, "phone"),
     pickupLocation |-> get(d, "pickupLocation"),
     primaryDestination |-> get(d, "primaryDestination"),
     additionalDestinations |-> additional_destinations(d),
     passengerRequests |-> get(d, "passengerRequests"),
     total_distance_km |-> round2(dist),
     total_duration_minutes |-> round2(dur),
     estimated_cost_usd |-> calculate_cost(dist, dur),
     calculated_legs |-> legs]

OkResponse(details) == [status |-> 200, error |-> None, booking_details |-> Some(details)]

Finished(r, resp) ==
    /\ response' = [response EXCEPT ![r] = resp]
    /\ pc' = [pc EXCEPT ![r] = "done"]

\* lines 76-94: read the body, validate, initialise the totals
Validate(r) ==
    /\ pc[r] = "recv"
    /\ IF DOMAIN data[r] = {}
       THEN /\ Finished(r, ErrorResponse(400, "Invalid JSON data"))
            /\ UNCHANGED <<total_distance_km, total_duration_minutes>>
       ELSE IF ~all(required_fields(data[r]))
       THEN /\ Finished(r, ErrorResponse(400,
                "Missing required fields (name, email, phone, pickupLocation, primaryDestination)"))
            /\ UNCHANGED <<total_distance_km, total_duration_minutes>>
       ELSE /\ total_distance_km' = [total_distance_km EXCEPT ![TotalsOwner(r)] = 0]
            /\ total_duration_minutes' = [total_duration_minutes EXCEPT ![TotalsOwner(r)] = 0]
            /\ pc' = [pc EXCEPT ![r] = "call"]
            /\ UNCHANGED response
    /\ UNCHANGED <<config, active, data, calculated_legs, current_origin_for_next_leg,
                   result, invocations, netcalls, answers, returns>>

\* lines 23-39: entry of get_distance_and_duration up to the outbound GET
Invoke(r) ==
    /\ pc[r] = "call"
    /\ LET k == Len(calculated_legs[r]) + 1
       IN  invocations' = [invocations EXCEPT
                             ![r] = Append(@, <<Origin(r, k), Destination(data[r], k)>>)]
    /\ IF api_key_configured(GOOGLE_MAPS_API_KEY)
       THEN /\ netcalls' = [netcalls EXCEPT ![r] = Append(@, 1)]
            /\ pc' = [pc EXCEPT ![r] = "wait"]
            /\ UNCHANGED <<result, returns>>
       ELSE /\ netcalls' = [netcalls EXCEPT ![r] = Append(@, 0)]
            /\ result' = [result EXCEPT ![r] = Failure("API key not configured on backend.")]
            /\ returns' = [returns EXCEPT
                             ![r] = Append(@, Failure("API key not configured on backend."))]
            /\ pc' = [pc EXCEPT ![r] = "ret"]
    /\ UNCHANGED <<config, active, data, total_distance_km, total_duration_minutes,
                   calculated_legs, current_origin_for_next_leg, response, answers>>

\* lines 39-64: the GET completes (or raises) and the resolver returns
Respond(r, replies) ==
    /\ pc[r] = "wait"
    /\ \E rep \in replies :
         /\ answers' = [answers EXCEPT ![r] = Append(@, rep)]
         /\ result' = [result EXCEPT ![r] = handle_response(rep)]
         /\ returns' = [returns EXCEPT ![r] = Append(@, handle_response(rep))]
    /\ pc' = [pc EXCEPT ![r] = "ret"]
    /\ UNCHANGED <<config, active, data, total_distance_km, total_duration_minutes,
                   calculated_legs, current_origin_for_next_leg, response,
                   invocations, netcalls>>

\* lines 98-163: book_ride from the return of a resolver call to the next call or the response
Continue(r) ==
    /\ pc[r] = "ret"
    /\ LET k == Len(calculated_legs[r]) + 1
           o == TotalsOwner(r)
           dest == Destination(data[r], k)
           res == result[r]
       IN  IF failed(res.err)
           THEN /\ Finished(r, ErrorResponse(500, leg_error(k, dest, res.err[1])))
                /\ UNCHANGED <<total_distance_km, total_duration_minutes, calculated_legs,
                               current_origin_for_next_leg>>
           ELSE IF res.dist = None \/ res.dur = None
           THEN /\ Finished(r, UnhandledException)
                /\ UNCHANGED <<total_distance_km, total_duration_minutes, calculated_legs,
                               current_origin_for_next_leg>>
           ELSE /\ total_distance_km' =
                     [total_distance_km EXCEPT ![o] = accumulate(@, res.dist[1])]
                /\ total_duration_minutes' =
                     [total_duration_minutes EXCEPT ![o] = accumulate(@, res.dur[1])]
                /\ calculated_legs' = [calculated_legs EXCEPT
                     ![r] = Append(@, Leg(Origin(r, k), dest, res.dist[1], res.dur[1]))]
                /\ current_origin_for_next_leg' = [current_origin_for_next_leg EXCEPT
                     ![r] = next_origin(Origin(r, k), dest)]
                /\ IF k < NumLegs(data[r])
                   THEN /\ pc' = [pc EXCEPT ![r] = "call"]
                        /\ UNCHANGED response
                   ELSE Finished(r, OkResponse(BookingDetails(data[r],
                            total_distance_km'[o], total_duration_minutes'[o],
                            calculated_legs'[r])))
    /\ UNCHANGED <<config, active, data, result, invocations, netcalls, answers, returns>>

(* ---------------------------- specifications ---------------------------- *)
InitWith(envs, reqs, bodies) ==
    /\ environ \in envs
    /\ FIXED_ORIGIN = FixedOriginFromEnv(environ)
    /\ GOOGLE_MAPS_API_KEY = ApiKeyFromEnv(environ)
    /\ active = reqs
    /\ \E f \in [reqs -> bodies] :
         data = [r \in Requests |-> IF r \in reqs THEN f[r] ELSE <<>>]
    /\ pc = [r \in Requests |-> IF r \in reqs THEN "recv" ELSE "idle"]
    /\ total_distance_km = [r \in Requests |-> 0]
    /\ total_duration_minutes = [r \in Requests |-> 0]
    /\ calculated_legs = [r \in Requests |-> <<>>]
    /\ current_origin_for_next_leg = [r \in Requests |-> None]
    /\ result = [r \in Requests |-> ResolverResult(None, None, None)]
    /\ response = [r \in Requests |-> NoResponse]
    /\ invocations = [r \in Requests |-> <<>>]
    /\ netcalls = [r \in Requests |-> <<>>]
    /\ answers = [r \in Requests |-> <<>>]
    /\ returns = [r \in Requests |-> <<>>]

\* one request at a time, every body and every configuration
Init == InitWith(Environments, {1}, Bodies)

Next ==
    \E r \in Requests :
        \/ Validate(r)
        \/ Invoke(r)
        \/ Respond(r, Replies)
        \/ Continue(r)

Spec == Init /\ [][Next]_vars

ConcEnvironments ==
    {[FIXED_ORIGIN |-> None, GOOGLE_MAPS_API_KEY |-> Some("key")],
     [FIXED_ORIGIN |-> Some("Depot"), GOOGLE_MAPS_API_KEY |-> None]}

ConcBodies ==
    {<<>>,
     [name |-> "Tendai", email |-> "t@example.com", phone |-> "0771",
      pickupLocation |-> "A", primaryDestination |-> "B"],
     [name |-> "Rudo", email |-> "r@example.com", phone |-> "0772",
      pickupLocation |-> "D", primaryDestination |-> "E", passengerRequests |-> "quiet"]}

\* every request served at the same time, on its own thread
ConcInit == InitWith(ConcEnvironments, Requests, ConcBodies)

ConcNext ==
    \E r \in Requests :
        \/ Validate(r)
        \/ Invoke(r)
        \/ Respond(r, ConcReplies)
        \/ Continue(r)

ConcSpec == ConcInit /\ [][ConcNext]_vars

(* ------------------------------- claims --------------------------------- *)
\* the consecutive pairs of a sequence of stops
Pairs(stops) == [i \in 1..(Len(stops) - 1) |-> <<stops[i], stops[i + 1]>>]

LegPairs(legs) == [i \in 1..Len(legs) |-> <<legs[i].from, legs[i].to>>]

Stops(first, d) ==
    first \o <<get(d, "pickupLocation"), get(d, "primaryDestination")>>
          \o [i \in 1..Len(additional_destinations(d)) |-> Some(additional_destinations(d)[i])]

\* the stops book_ride visits: the fixed origin, the pickup, the destinations
StopSequence(d) == Stops(<<Some(FIXED_ORIGIN)>>, d)

IsPrefix(s, t) == Len(s) <= Len(t) /\ \A i \in 1..Len(s) : s[i] = t[i]

Details(r) == response[r].booking_details[1]

Quoted(r) == response[r].status = 200

ValidContact(d) == Truthy(get(d, "name")) /\ Truthy(get(d, "email")) /\ Truthy(get(d, "phone"))

ValidStops(d) == Truthy(get(d, "pickupLocation")) /\ Truthy(get(d, "primaryDestination"))

\* C1: the resolver is invoked for the consecutive pairs of the stop sequence, in
\* order, never out of order at any point of the request; a quoted request has made
\* exactly N-1 invocations and its calculated_legs are those N-1 pairs in that order.
C1_LegsInOrder ==
    \A r \in active :
        /\ invocations[r] # <<>> =>
               IsPrefix(invocations[r], Pairs(StopSequence(data[r])))
        /\ Quoted(r) =>
               /\ Len(invocations[r]) = Len(StopSequence(data[r])) - 1
               /\ invocations[r] = Pairs(StopSequence(data[r]))
               /\ Len(Details(r).calculated_legs) = Len(StopSequence(data[r])) - 1
               /\ LegPairs(Details(r).calculated_legs) = Pairs(StopSequence(data[r]))

C1_Witness ==
    \E r \in active :
        /\ Quoted(r)
        /\ Len(additional_destinations(data[r])) = 2
        /\ Len(invocations[r]) = 4
        /\ Len(Details(r).calculated_legs) = 4

\* C2: once an invocation has returned a Failure it is the last invocation of the
\* request, and the request ends with status 500, an error body and no quote.
C2_AbortOnFirstFailure ==
    \A r \in active : \A i \in 1..Len(returns[r]) :
        returns[r][i].err # None =>
            /\ i = Len(invocations[r])
            /\ pc[r] \in {"ret", "done"}
            /\ pc[r] = "done" =>
                   /\ response[r].status = 500
                   /\ Truthy(response[r].error)
                   /\ response[r].booking_details = None

\* leg 2 of 3 fails with a non-OK element status after leg 1 succeeded
C2_Witness ==
    \E r \in active :
        /\ pc[r] = "done"
        /\ Len(additional_destinations(data[r])) = 1
        /\ Len(returns[r]) = 2
        /\ returns[r][1].err = None
        /\ returns[r][2].err = Some(element_status_error("NOT_FOUND"))
        /\ response[r].status = 500

C4_FixedOriginOnlyWhenConfigured ==
    \A r \in active :
        Quoted(r) =>
            LegPairs(Details(r).calculated_legs) =
                Pairs(Stops(IF environ["FIXED_ORIGIN"] = None
                            THEN <<>> ELSE <<environ["FIXED_ORIGIN"]>>, data[r]))

\* C4 amended: the first stop is always the fixed origin, which is the value of the
\* environment variable FIXED_ORIGIN, or 'Harare, Zimbabwe' when it is unset; the
\* legs are the consecutive pairs of [fixed origin, pickup, primary, ...additional].
C4_FixedOriginAlwaysFirst ==
    \A r \in active :
        Quoted(r) =>
            LegPairs(Details(r).calculated_legs) =
                Pairs(Stops(IF environ["FIXED_ORIGIN"] = None
                            THEN <<Some("Harare, Zimbabwe")>>
                            ELSE <<environ["FIXED_ORIGIN"]>>, data[r]))

\* pickup A, primary B, additional [C], FIXED_ORIGIN unset: three legs
C4_Witness ==
    \E r \in active :
        /\ Quoted(r)
        /\ environ["FIXED_ORIGIN"] = None
        /\ additional_destinations(data[r]) = <<"C">>
        /\ LegPairs(Details(r).calculated_legs) =
               << <<Some("Harare, Zimbabwe"), Some("A")>>,
                  <<Some("A"), Some("B")>>,
                  <<Some("B"), Some("C")>> >>

Hundredth == Scale \div 100

Abs(x) == IF x < 0 THEN -x ELSE x

\* x is a 2-decimal number nearest to y (either neighbour when y lies halfway)
NearestHundredth(x, y) == x % Hundredth = 0 /\ 2 * Abs(x - y) <= Hundredth

RECURSIVE SumOver(_, _, _)
\* f(s[1]) + ... + f(s[n])
SumOver(f(_), s, n) == IF n = 0 THEN 0 ELSE SumOver(f, s, n - 1) + f(s[n])

Meters(rep) == rep.rows[1].elements[1].distance[1]

Seconds(rep) == rep.rows[1].elements[1].duration[1]

\* the distance the provider gave, in km, and the duration, in minutes
RawKm(rep) == Meters(rep) * (Scale \div 1000)

RawMinutes(rep) == Seconds(rep) * (Scale \div 60)

LegKm(leg) == leg.distance_km

LegMinutes(leg) == leg.duration_minutes

\* C5 as stated: the totals of a quote are the sums of the distance_km and
\* duration_minutes entries of calculated_legs.
C5_TotalsAreSumsOfLegEntries ==
    \A r \in active :
        Quoted(r) =>
            LET legs == Details(r).calculated_legs
            IN  /\ Details(r).total_distance_km = SumOver(LegKm, legs, Len(legs))
                /\ Details(r).total_duration_minutes = SumOver(LegMinutes, legs, Len(legs))

\* C5 amended: at every point of the request the running totals are the exact sums
\* of the distances and durations the resolver returned for the legs resolved so
\* far; the totals of a quote are those sums rounded once to 2 decimals, and each
\* entry of calculated_legs is its own leg's value rounded to 2 decimals.
C5_TotalsAreRoundedSumsOfResolved ==
    \A r \in active :
        /\ pc[r] \in {"call", "wait", "ret"} \/ Quoted(r) =>
               LET n == Len(calculated_legs[r])
               IN  /\ total_distance_km[r] = SumOver(RawKm, answers[r], n)
                   /\ total_duration_minutes[r] = SumOver(RawMinutes, answers[r], n)
        /\ Quoted(r) =>
               LET legs == Details(r).calculated_legs
                   n == Len(legs)
               IN  /\ n = Len(answers[r])
                   /\ NearestHundredth(Details(r).total_distance_km,
                                       SumOver(RawKm, answers[r], n))
                   /\ NearestHundredth(Details(r).total_duration_minutes,
                                       SumOver(RawMinutes, answers[r], n))
                   /\ \A i \in 1..n :
                          /\ NearestHundredth(legs[i].distance_km, RawKm(answers[r][i]))
                          /\ NearestHundredth(legs[i].duration_minutes,
                                              RawMinutes(answers[r][i]))

\* two legs of 1.004 km: the entries sum to 2.00, the total is 2.01
C5_Witness ==
    \E r \in active :
        /\ Quoted(r)
        /\ answers[r] = <<OkReply(1004, 100), OkReply(1004, 100)>>
        /\ Details(r).total_distance_km = 201 * Hundredth
        /\ Details(r).calculated_legs[1].distance_km = 100 * Hundredth
        /\ Details(r).calculated_legs[2].distance_km = 100 * Hundredth

\* C6 as stated: the estimated cost is the formula applied to the totals of the
\* quote (total_distance_km and total_duration_minutes as returned), rounded to 2
\* decimals.
C6_CostOfQuotedTotals ==
    \A r \in active :
        Quoted(r) =>
            NearestHundredth(Details(r).estimated_cost_usd,
                             2 * Scale + Details(r).total_distance_km \div 2
                                       + Details(r).total_duration_minutes \div 5)

\* C6 amended: the estimated cost is round(2.00 + 0.50 * D + 0.20 * T, 2) where D
\* and T are the unrounded sums of the resolved legs' distances and durations (not
\* the 2-decimal totals of the response); legs of 10 km/15 min and 5 km/10 min give
\* totals 15 and 25 and cost 14.50.
C6_CostOfUnroundedTotals ==
    \A r \in active :
        Quoted(r) =>
            LET n == Len(answers[r])
                D == SumOver(RawKm, answers[r], n)
                T == SumOver(RawMinutes, answers[r], n)
            IN  /\ D % 2 = 0 /\ T % 5 = 0
                /\ NearestHundredth(Details(r).estimated_cost_usd,
                                    2 * Scale + D \div 2 + T \div 5)
                /\ answers[r] = <<OkReply(10000, 900), OkReply(5000, 600)>> =>
                       /\ Details(r).total_distance_km = 15 * Scale
                       /\ Details(r).total_duration_minutes = 25 * Scale
                       /\ Details(r).estimated_cost_usd = 1450 * Hundredth

\* legs of 10 km/15 min and 1.004 km/100 s: cost 10.84, not the 10.83 of the
\* quoted totals 11.0 and 16.67
C6_Witness ==
    \E r \in active :
        /\ Quoted(r)
        /\ answers[r] = <<OkReply(10000, 900), OkReply(1004, 100)>>
        /\ Details(r).total_distance_km = 1100 * Hundredth
        /\ Details(r).total_duration_minutes = 1667 * Hundredth
        /\ Details(r).estimated_cost_usd = 1084 * Hundredth

\* C7 as stated: every invocation of the resolver makes exactly one outbound call.
C7_ExactlyOneCall ==
    \A r \in active : \A i \in 1..Len(netcalls[r]) : netcalls[r][i] = 1

\* C7 amended: every invocation makes at most one outbound call, whatever the
\* outcome (no retry): exactly one when GOOGLE_MAPS_API_KEY is set and non-empty,
\* and none when it is not, the invocation then returning a Failure at once.
C7_OneCallUnlessNoKey ==
    \A r \in active :
        /\ Len(netcalls[r]) = Len(invocations[r])
        /\ Len(answers[r]) <= Len(netcalls[r])
        /\ \A i \in 1..Len(netcalls[r]) :
               /\ netcalls[r][i] <= 1
               /\ netcalls[r][i] = 1 <=> Truthy(environ["GOOGLE_MAPS_API_KEY"])
               /\ (netcalls[r][i] = 0 /\ i <= Len(returns[r])) =>
                      returns[r][i] = Failure("API key not configured on backend.")

\* a transport failure is returned after the one call made
C7_Witness ==
    \E r \in active :
        /\ pc[r] = "done"
        /\ netcalls[r] = <<1>>
        /\ answers[r] = <<Raised("RequestException", "connection refused")>>
        /\ returns[r][1].err # None
        /\ response[r].status = 500

\* the reply is OK at the top level and in its first element, and carries both values
GoodReply(rep) ==
    /\ rep.kind = "json"
    /\ rep.status = Some("OK")
    /\ rep.rows # <<>>
    /\ rep.rows[1].elements # <<>>
    /\ rep.rows[1].elements[1].status = "OK"
    /\ rep.rows[1].elements[1].distance # None
    /\ rep.rows[1].elements[1].duration # None

NumSucceeded(rets) == Cardinality({i \in 1..Len(rets) : rets[i].err = None})

\* C8: the resolver returns (meters / 1000, seconds / 60) and no error for a good
\* reply, and otherwise (bad reply, or no API key) no distance, no duration and a
\* non-empty error message; only legs that succeeded are in calculated_legs.
C8_ValueOrNonEmptyError ==
    \A r \in active :
        /\ \A i \in 1..Len(returns[r]) :
              LET ret == returns[r][i]
              IN  IF Truthy(GOOGLE_MAPS_API_KEY) /\ GoodReply(answers[r][i])
                  THEN /\ ret.err = None
                       /\ ret.dist # None /\ ret.dist[1] * 1000 = Meters(answers[r][i]) * Scale
                       /\ ret.dur # None /\ ret.dur[1] * 60 = Seconds(answers[r][i]) * Scale
                  ELSE /\ ret.dist = None
                       /\ ret.dur = None
                       /\ Truthy(ret.err)
        /\ Len(calculated_legs[r]) <= NumSucceeded(returns[r])

\* an element with an empty status string still yields a non-empty message
C8_Witness ==
    \E r \in active :
        /\ Len(returns[r]) = 2
        /\ returns[r][1].err = None
        /\ answers[r][2] = Json(Some("OK"), OneElement(Element("", None, None)))
        /\ returns[r][2] = Failure("Distance Matrix API element status: ")
        /\ pc[r] = "done"
        /\ Len(calculated_legs[r]) = 1

RECURSIVE AloneFrom(_, _, _, _, _, _, _, _)
\* the response to body d served alone from its k-th leg on, the provider answering
\* reps[k], reps[k+1], ... and the legs before k having given dist, dur and legs
AloneFrom(d, fixed, key, reps, k, dist, dur, legs) ==
    IF k > NumLegs(d)
    THEN OkResponse(BookingDetails(d, dist, dur, legs))
    ELSE LET from == IF k = 1 THEN Some(fixed) ELSE Destination(d, k - 1)
             to == Destination(d, k)
             res == IF Truthy(key) THEN handle_response(reps[k])
                    ELSE Failure("API key not configured on backend.")
         IN  IF res.err # None
             THEN ErrorResponse(500, leg_error(k, to, res.err[1]))
             ELSE AloneFrom(d, fixed, key, reps, k + 1, dist + res.dist[1],
                            dur + res.dur[1],
                            Append(legs, Leg(from, to, res.dist[1], res.dur[1])))

\* the response to body d served alone under the given configuration and answers
Alone(d, fixed, key, reps) ==
    IF DOMAIN d = {} THEN ErrorResponse(400, "Invalid JSON data")
    ELSE IF ~(ValidContact(d) /\ ValidStops(d))
    THEN ErrorResponse(400,
             "Missing required fields (name, email, phone, pickupLocation, primaryDestination)")
    ELSE AloneFrom(d, fixed, key, reps, 1, 0, 0, <<>>)

\* what belongs to request r alone
Local(r) == <<pc[r], total_distance_km[r], total_duration_minutes[r], calculated_legs[r],
              current_origin_for_next_leg[r], result[r], response[r],
              invocations[r], netcalls[r], answers[r], returns[r]>>

\* every finished request has the response it would have had alone
IndependentResponses ==
    \A r \in active :
        pc[r] = "done" =>
            response[r] = Alone(data[r], FIXED_ORIGIN, GOOGLE_MAPS_API_KEY, answers[r])

\* a step changes the state of one request only, and never the configuration
StepIsLocal ==
    /\ config' = config
    /\ data' = data
    /\ \A r, q \in active : (r # q /\ Local(r)' # Local(r)) => Local(q)' = Local(q)

\* C9: under every interleaving of the steps of the requests served at the same
\* time, each response is the one the request would get alone against the same
\* provider answers; a step of one request changes nothing of another, and the
\* configuration is never modified.
C9_RequestsIndependent == []IndependentResponses /\ [][StepIsLocal]_vars

\* two requests quoted with different answers, hence different totals
C9_Witness ==
    /\ pc[1] = "done" /\ pc[2] = "done"
    /\ Quoted(1) /\ Quoted(2)
    /\ answers[1] = <<OkReply(10000, 900), OkReply(1004, 100)>>
    /\ answers[2] = <<OkReply(1004, 100), OkReply(1004, 100)>>
    /\ Details(1).total_distance_km # Details(2).total_distance_km

====
